---- MODULE Spec2Model ----
(***************************************************************************)
(* VarlikRadar: the asset / transaction ledger behind the REST API.        *)
(*                                                                         *)
(* Numbers.  Decimal columns are modelled in their own scale: prices       *)
(* (decimal(18,2)) are integers counting 0.01, quantities are whole units. *)
(* A fetched market price is a float and is counted in 0.001.  A missing   *)
(* value (undefined / null) is the empty sequence <<>>, a present value v  *)
(* is <<v>>.                                                               *)
(***************************************************************************)
EXTENDS Integers, Sequences, FiniteSets, TLC

VARIABLES
    assets,        \* table assets: id -> row, over the ids of the stored rows
    transactions,  \* table transactions: id -> row, over the ids of the stored rows
    nextAssetId,   \* ids handed out so far + 1 (gen_random_uuid never repeats)
    nextTxId,
    req,           \* the createTransaction calls in flight, one per slot
    refresh,       \* the updateAllAssetPrices call in flight
    res,           \* the last HTTP response sent: route and status
    incomes,       \* table incomes: id -> row
    expenses,      \* table expenses: id -> row
    nextIncomeId,
    nextExpenseId,
    cache,         \* the client's query cache: query key -> state of the cached result
    call           \* a call of a function that reads no table: its input and its result

vars == <<assets, transactions, nextAssetId, nextTxId, req, refresh, res,
          incomes, expenses, nextIncomeId, nextExpenseId, cache, call>>

\* the budget tables
budgetVars == <<incomes, expenses, nextIncomeId, nextExpenseId>>
\* what the asset, transaction and price routes of the server never touch
elsewhere == <<budgetVars, cache, call>>

----------------------------------------------------------------------------
(* Bounds of the model *)

\* assets ever created
MaxAssets == 1
\* transactions ever created under the full API
MaxTx == 2
\* transactions ever created in the sequential ledger runs
MaxLedgerTx == 3
\* createTransaction calls in flight at once under the full API
MaxInflight == 1

Slots == 1..MaxInflight
\* the calls that overlap in the runs of concurrent calls: one more
RaceSlots == 1..(MaxInflight + 1)

----------------------------------------------------------------------------
(* Values *)

Undefined == <<>>
Some(v) == <<v>>
IsDefined(m) == m # <<>>
Get(m) == m[1]

\* transactionTypeEnum: the buy and the sell type, written in ASCII here
Buy == "alis"
Sell == "satis"

\* a quotient of two JavaScript numbers, kept as the fraction num/den
Ratio(num, den) == [num |-> num, den |-> den]

Max(a, b) == IF a >= b THEN a ELSE b
Abs(a) == IF a >= 0 THEN a ELSE -a

\* Number.prototype.toFixed(2) of the quotient num/den (den > 0), counted in 0.01:
\* the nearest multiple of 0.01.  When the exact quotient lies half way between two
\* of them the double that holds it lies on either side, so both neighbours are
\* possible results.
toFixed2(num, den) ==
    LET f == num \div den
        r == num - f * den
    IN  IF 2 * r < den THEN {f}
        ELSE IF 2 * r > den THEN {f + 1}
        ELSE {f, f + 1}

----------------------------------------------------------------------------
(* shared/schema.ts: the insert schemas.  drizzle-zod turns every text and  *)
(* decimal column into z.string(): a field is checked for presence only.   *)

\* insertAssetSchema.parse: quantity has a column default and may be absent.
insertAssetSchema(body) ==
    /\ IsDefined(body.type)
    /\ IsDefined(body.averagePrice)
    /\ IsDefined(body.currentPrice)

\* insertAssetSchema.partial().parse: every field may be absent.
insertAssetSchemaPartial(body) == TRUE

\* insertTransactionSchema.parse
insertTransactionSchema(body) ==
    /\ IsDefined(body.assetId)
    /\ IsDefined(body.type)
    /\ IsDefined(body.quantity)
    /\ IsDefined(body.price)
    /\ IsDefined(body.date)

\* insertIncomeSchema = createInsertSchema(incomes, {date: z.coerce.date()}): the
\* required columns are present; category is any string
insertIncomeSchema(body) ==
    IsDefined(body.category) /\ IsDefined(body.amount) /\ IsDefined(body.date)

\* insertExpenseSchema: as insertIncomeSchema, over the table expenses
insertExpenseSchema(body) ==
    IsDefined(body.category) /\ IsDefined(body.amount) /\ IsDefined(body.date)

\* the enumerations schema.ts declares (in ASCII)
assetTypeEnum == {"hisse", "etf", "kripto", "gayrimenkul"}
transactionTypeEnum == {Buy, Sell}
incomeCategories == {"maas", "kira", "temettu", "faiz", "serbest", "diger"}
expenseCategories ==
    {"market", "faturalar", "ulasim", "saglik", "eglence", "giyim", "yemek", "kira",
     "kredi", "sigorta", "diger"}

----------------------------------------------------------------------------
(* server/services/priceService.ts: DatabaseStorage *)

\* getAsset: the row, or undefined
getAsset(id) == IF id \in DOMAIN assets THEN Some(assets[id]) ELSE Undefined

\* the rows of a table after an insert under a new id
Inserted(table, id, row) == [i \in DOMAIN table \cup {id} |-> IF i = id THEN row ELSE table[i]]

\* the rows of a table after a delete
Deleted(table, id) == [i \in DOMAIN table \ {id} |-> table[i]]

\* createAsset: INSERT ... RETURNING; quantity defaults to 0
createAssetRow(body) ==
    [type |-> Get(body.type),
     quantity |-> IF IsDefined(body.quantity) THEN Get(body.quantity) ELSE 0,
     averagePrice |-> Get(body.averagePrice),
     currentPrice |-> Get(body.currentPrice)]

\* an UPDATE that also resets the quantity when the statement does not give one
updatedRow_ResetsQuantity(row, data) ==
    [type |-> IF IsDefined(data.type) THEN Get(data.type) ELSE row.type,
     quantity |-> IF IsDefined(data.quantity) THEN Get(data.quantity) ELSE 0,
     averagePrice |-> IF IsDefined(data.averagePrice) THEN Get(data.averagePrice) ELSE row.averagePrice,
     currentPrice |-> IF IsDefined(data.currentPrice) THEN Get(data.currentPrice) ELSE row.currentPrice]

\* updateAsset: UPDATE assets SET <the fields given> WHERE id = ...; the row after it
updatedRow(row, data) ==
    [type |-> IF IsDefined(data.type) THEN Get(data.type) ELSE row.type,
     quantity |-> IF IsDefined(data.quantity) THEN Get(data.quantity) ELSE row.quantity,
     averagePrice |-> IF IsDefined(data.averagePrice) THEN Get(data.averagePrice) ELSE row.averagePrice,
     currentPrice |-> IF IsDefined(data.currentPrice) THEN Get(data.currentPrice) ELSE row.currentPrice]

\* updateAsset: the table after the statement; no row matches a missing id
updateAsset(id, data) ==
    IF id \in DOMAIN assets
    THEN [assets EXCEPT ![id] = updatedRow(assets[id], data)]
    ELSE assets

NoData == [type |-> Undefined, quantity |-> Undefined, averagePrice |-> Undefined, currentPrice |-> Undefined]

\* createTransaction, the row inserted (totalAmount, currency and notes are stored
\* and never read by the server)
createTransactionRow(body) ==
    [assetId |-> Get(body.assetId),
     type |-> Get(body.type),
     quantity |-> Get(body.quantity),
     price |-> Get(body.price),
     date |-> Get(body.date)]

\* createTransaction, buy branch: the quantity written
buyQuantity(asset, tx) == asset.quantity + tx.quantity

\* a buy branch that takes the price of the last buy for the average
buyAveragePrice_LastPrice(asset, tx) == {tx.price}

\* createTransaction, buy branch: the average prices toFixed(2) can write
buyAveragePrice(asset, tx) ==
    LET currentValue == asset.quantity * asset.averagePrice
        newValue == tx.quantity * tx.price
        newQuantity == asset.quantity + tx.quantity
    IN  IF newQuantity > 0
        THEN toFixed2(currentValue + newValue, newQuantity)
        ELSE {0}

\* createTransaction, buy branch, called for one buy and then for another: the rows
\* (quantity and averagePrice) the second call can leave
buyTwice(asset, first, second) ==
    UNION {{[averagePrice |-> a2,
             quantity |-> buyQuantity([asset EXCEPT !.quantity = buyQuantity(asset, first),
                                                    !.averagePrice = a1], second)] :
              a2 \in buyAveragePrice([asset EXCEPT !.quantity = buyQuantity(asset, first),
                                                   !.averagePrice = a1], second)} :
           a1 \in buyAveragePrice(asset, first)}

\* a sell branch without the floor at zero
sellQuantity_Unclamped(asset, tx) == asset.quantity - tx.quantity

\* createTransaction, sell branch: the quantity written
sellQuantity(asset, tx) == Max(0, asset.quantity - tx.quantity)

Idle == [pc |-> "idle", body |-> Undefined, transaction |-> Undefined, asset |-> Undefined]

Response(route, status) == [route |-> route, status |-> status]

\* getTransactions: SELECT ... ORDER BY date DESC.  The orders the database may
\* return: every arrangement of the stored ids with the dates never increasing.
getTransactions ==
    LET ids == DOMAIN transactions
        n == Cardinality(ids)
    IN  {order \in [1..n -> ids] :
           /\ \A i, j \in 1..n : i # j => order[i] # order[j]
           /\ \A i, j \in 1..n :
                i < j => transactions[order[i]].date >= transactions[order[j]].date}

\* getMonthlyPerformance, the replay of one transaction onto the entry of its asset.
\* The reconstructed average price is not rounded: it is the fraction num / den.
replayTransaction(existing, tx) ==
    IF tx.type = Buy
    THEN LET newQuantity == existing.quantity + tx.quantity
         IN  IF newQuantity > 0
             THEN [assetId |-> existing.assetId, quantity |-> newQuantity,
                   num |-> existing.quantity * existing.num + tx.quantity * tx.price * existing.den,
                   den |-> existing.den * newQuantity]
             ELSE [assetId |-> existing.assetId, quantity |-> newQuantity,
                   num |-> 0, den |-> 1]
    ELSE IF tx.type = Sell
    THEN [existing EXCEPT !.quantity = Max(0, existing.quantity - tx.quantity)]
    ELSE existing

RECURSIVE replay(_, _, _)
\* getMonthlyPerformance, relevantTransactions.forEach: the entry of assetId after
\* the transactions order[i..] have been replayed in the order of the list
replay(order, i, existing) ==
    IF i > Len(order) THEN existing
    ELSE LET tx == transactions[order[i]]
         IN  replay(order, i + 1,
                    IF tx.assetId = existing.assetId
                    THEN replayTransaction(existing, tx) ELSE existing)

\* assetValuesAtDate.get(assetId) || { quantity: 0, averagePrice: 0 }
NoEntry(assetId) == [assetId |-> assetId, quantity |-> 0, num |-> 0, den |-> 1]

----------------------------------------------------------------------------
(* server/routes.ts and the storage calls each handler awaits.  ok says      *)
(* whether the database statement the step awaits succeeds; when it does not *)
(* (a value beyond the column's precision, a lost connection) the call       *)
(* throws and the handler's catch answers.                                   *)

\* POST /api/assets
PostAssets(body, ok) ==
    /\ IF insertAssetSchema(body) /\ ok
       THEN /\ assets' = Inserted(assets, nextAssetId, createAssetRow(body))
            /\ nextAssetId' = nextAssetId + 1
            /\ res' = Response("POST /api/assets", 201)
       ELSE /\ UNCHANGED <<assets, nextAssetId>>
            /\ res' = Response("POST /api/assets", 400)
    /\ UNCHANGED <<transactions, nextTxId, req, refresh>>
    /\ UNCHANGED elsewhere

\* a PATCH that creates the row when no asset has the id
PatchAsset_Upserting(id, body, ok) ==
    /\ IF insertAssetSchemaPartial(body) /\ ok
       THEN /\ assets' = IF id \in DOMAIN assets THEN updateAsset(id, body)
                         ELSE Inserted(assets, id, updatedRow([type |-> "hisse", quantity |-> 0,
                                                               averagePrice |-> 0, currentPrice |-> 0],
                                                              body))
            /\ res' = Response("PATCH /api/assets/:id", 200)
       ELSE /\ UNCHANGED assets
            /\ res' = Response("PATCH /api/assets/:id", 400)
    /\ UNCHANGED <<transactions, nextAssetId, nextTxId, req, refresh>>
    /\ UNCHANGED elsewhere

\* PATCH /api/assets/:id
PatchAsset(id, body, ok) ==
    /\ IF insertAssetSchemaPartial(body) /\ ok
       THEN /\ assets' = updateAsset(id, body)
            /\ res' = Response("PATCH /api/assets/:id",
                               IF id \in DOMAIN assets THEN 200 ELSE 404)
       ELSE /\ UNCHANGED assets
            /\ res' = Response("PATCH /api/assets/:id", 400)
    /\ UNCHANGED <<transactions, nextAssetId, nextTxId, req, refresh>>
    /\ UNCHANGED elsewhere

\* deleteAsset: DELETE FROM assets WHERE id = ...
deleteAsset(id) == Deleted(assets, id)

\* a delete of an asset that takes the asset's transactions with it
DeleteAsset_Cascading(id, ok) ==
    /\ IF ok
       THEN /\ assets' = deleteAsset(id)
            /\ transactions' = [t \in {u \in DOMAIN transactions : transactions[u].assetId # id}
                                  |-> transactions[t]]
            /\ res' = Response("DELETE /api/assets/:id",
                               IF id \in DOMAIN assets THEN 204 ELSE 404)
       ELSE /\ UNCHANGED <<assets, transactions>>
            /\ res' = Response("DELETE /api/assets/:id", 500)
    /\ UNCHANGED <<nextAssetId, nextTxId, req, refresh>>
    /\ UNCHANGED elsewhere

\* DELETE /api/assets/:id
DeleteAsset(id, ok) ==
    /\ IF ok
       THEN /\ assets' = deleteAsset(id)
            /\ res' = Response("DELETE /api/assets/:id",
                               IF id \in DOMAIN assets THEN 204 ELSE 404)
       ELSE /\ UNCHANGED assets
            /\ res' = Response("DELETE /api/assets/:id", 500)
    /\ UNCHANGED <<transactions, nextAssetId, nextTxId, req, refresh>>
    /\ UNCHANGED elsewhere

\* deleteTransaction: DELETE FROM transactions WHERE id = ...
deleteTransaction(id) == Deleted(transactions, id)

\* DELETE /api/transactions/:id
DeleteTransaction(id, ok) ==
    /\ IF ok
       THEN /\ transactions' = deleteTransaction(id)
            /\ res' = Response("DELETE /api/transactions/:id",
                               IF id \in DOMAIN transactions THEN 204 ELSE 404)
       ELSE /\ UNCHANGED transactions
            /\ res' = Response("DELETE /api/transactions/:id", 500)
    /\ UNCHANGED <<assets, nextAssetId, nextTxId, req, refresh>>
    /\ UNCHANGED elsewhere

\* GET /api/assets/:id
GetAsset(id, ok) ==
    /\ res' = Response("GET /api/assets/:id",
                       IF ~ok THEN 500 ELSE IF IsDefined(getAsset(id)) THEN 200 ELSE 404)
    /\ UNCHANGED <<assets, transactions, nextAssetId, nextTxId, req, refresh>>
    /\ UNCHANGED elsewhere

\* getTransaction: the row, or undefined
getTransaction(id) == IF id \in DOMAIN transactions THEN Some(transactions[id]) ELSE Undefined

\* GET /api/transactions/:id
GetTransaction(id, ok) ==
    /\ res' = Response("GET /api/transactions/:id",
                       IF ~ok THEN 500 ELSE IF IsDefined(getTransaction(id)) THEN 200 ELSE 404)
    /\ UNCHANGED <<assets, transactions, nextAssetId, nextTxId, req, refresh>>
    /\ UNCHANGED elsewhere

\* POST /api/transactions, up to createTransaction's first await: the payload is
\* parsed and the transaction row inserted.
PostTransactions(s, body, ok) ==
    /\ req[s].pc = "idle"
    /\ IF insertTransactionSchema(body) /\ ok
       THEN /\ transactions' = Inserted(transactions, nextTxId, createTransactionRow(body))
            /\ nextTxId' = nextTxId + 1
            /\ req' = [req EXCEPT ![s] = [pc |-> "inserted",
                                          body |-> Some(createTransactionRow(body)),
                                          transaction |-> Some(nextTxId),
                                          asset |-> Undefined]]
            /\ UNCHANGED res
       ELSE /\ UNCHANGED <<transactions, nextTxId, req>>
            /\ res' = Response("POST /api/transactions", 400)
    /\ UNCHANGED <<assets, nextAssetId, refresh>>
    /\ UNCHANGED elsewhere

\* a createTransaction that takes its row back and throws when it finds no asset
CreateTransactionGetAsset_Rejecting(s, ok) ==
    /\ req[s].pc = "inserted"
    /\ LET tx == Get(req[s].body)
           asset == getAsset(tx.assetId)
       IN  IF ~ok
           THEN /\ req' = [req EXCEPT ![s] = Idle]
                /\ res' = Response("POST /api/transactions", 400)
                /\ UNCHANGED transactions
           ELSE IF IsDefined(asset) /\ tx.type \in {Buy, Sell}
           THEN /\ req' = [req EXCEPT ![s].pc = "read", ![s].asset = asset]
                /\ UNCHANGED <<res, transactions>>
           ELSE IF IsDefined(asset)
           THEN /\ req' = [req EXCEPT ![s] = Idle]
                /\ res' = Response("POST /api/transactions", 201)
                /\ UNCHANGED transactions
           ELSE /\ req' = [req EXCEPT ![s] = Idle]
                /\ res' = Response("POST /api/transactions", 404)
                /\ transactions' = Deleted(transactions, Get(req[s].transaction))
    /\ UNCHANGED <<assets, nextAssetId, nextTxId, refresh>>
    /\ UNCHANGED elsewhere

\* createTransaction: const asset = await this.getAsset(assetId).  Without an asset,
\* or with a type that is neither buy nor sell, the transaction is returned as it is.
CreateTransactionGetAsset(s, ok) ==
    /\ req[s].pc = "inserted"
    /\ LET tx == Get(req[s].body)
           asset == getAsset(tx.assetId)
       IN  IF ~ok
           THEN /\ req' = [req EXCEPT ![s] = Idle]
                /\ res' = Response("POST /api/transactions", 400)
           ELSE IF IsDefined(asset) /\ tx.type \in {Buy, Sell}
           THEN /\ req' = [req EXCEPT ![s].pc = "read", ![s].asset = asset]
                /\ UNCHANGED res
           ELSE /\ req' = [req EXCEPT ![s] = Idle]
                /\ res' = Response("POST /api/transactions", 201)
    /\ UNCHANGED <<assets, transactions, nextAssetId, nextTxId, refresh>>
    /\ UNCHANGED elsewhere

\* a createTransaction that writes back the whole row it read, with the new quantity
\* and averagePrice
CreateTransactionUpdateAsset_WholeRow(s, ok) ==
    /\ req[s].pc = "read"
    /\ LET tx == Get(req[s].body)
           asset == Get(req[s].asset)
           whole == [type |-> Some(asset.type), quantity |-> Some(asset.quantity),
                     averagePrice |-> Some(asset.averagePrice),
                     currentPrice |-> Some(asset.currentPrice)]
       IN  IF ~ok
           THEN /\ UNCHANGED assets
                /\ res' = Response("POST /api/transactions", 400)
           ELSE /\ res' = Response("POST /api/transactions", 201)
                /\ IF tx.type = Buy
                   THEN \E averagePrice \in buyAveragePrice(asset, tx) :
                          assets' = updateAsset(tx.assetId,
                                       [whole EXCEPT !.quantity = Some(buyQuantity(asset, tx)),
                                                     !.averagePrice = Some(averagePrice)])
                   ELSE assets' = updateAsset(tx.assetId,
                                       [whole EXCEPT !.quantity = Some(sellQuantity(asset, tx))])
    /\ req' = [req EXCEPT ![s] = Idle]
    /\ UNCHANGED <<transactions, nextAssetId, nextTxId, refresh>>
    /\ UNCHANGED elsewhere

\* createTransaction: await this.updateAsset(...) with the values computed from the
\* asset read before; a throw is answered 400 by the route.
CreateTransactionUpdateAsset(s, ok) ==
    /\ req[s].pc = "read"
    /\ LET tx == Get(req[s].body)
           asset == Get(req[s].asset)
       IN  IF ~ok
           THEN /\ UNCHANGED assets
                /\ res' = Response("POST /api/transactions", 400)
           ELSE /\ res' = Response("POST /api/transactions", 201)
                /\ IF tx.type = Buy
                   THEN \E averagePrice \in buyAveragePrice(asset, tx) :
                          assets' = updateAsset(tx.assetId,
                                       [NoData EXCEPT !.quantity = Some(buyQuantity(asset, tx)),
                                                      !.averagePrice = Some(averagePrice)])
                   ELSE assets' = updateAsset(tx.assetId,
                                       [NoData EXCEPT !.quantity = Some(sellQuantity(asset, tx))])
    /\ req' = [req EXCEPT ![s] = Idle]
    /\ UNCHANGED <<transactions, nextAssetId, nextTxId, refresh>>
    /\ UNCHANGED elsewhere

----------------------------------------------------------------------------
(* server/routes.ts: the budget, incomes and expenses *)

\* what the budget routes never touch
notBudget == <<assets, transactions, nextAssetId, nextTxId, req, refresh, cache, call>>

\* createIncome / createExpense, the row inserted (description, currency and
\* isRecurring are stored and read by no computation)
createBudgetRow(body) ==
    [category |-> Get(body.category), amount |-> Get(body.amount), date |-> Get(body.date)]

\* POST /api/incomes
PostIncomes(body, ok) ==
    /\ IF insertIncomeSchema(body) /\ ok
       THEN /\ incomes' = Inserted(incomes, nextIncomeId, createBudgetRow(body))
            /\ nextIncomeId' = nextIncomeId + 1
            /\ res' = Response("POST /api/incomes", 201)
       ELSE /\ UNCHANGED <<incomes, nextIncomeId>>
            /\ res' = Response("POST /api/incomes", 400)
    /\ UNCHANGED <<expenses, nextExpenseId>>
    /\ UNCHANGED notBudget

\* DELETE /api/incomes/:id
DeleteIncome(id, ok) ==
    /\ IF ok
       THEN /\ incomes' = Deleted(incomes, id)
            /\ res' = Response("DELETE /api/incomes/:id",
                               IF id \in DOMAIN incomes THEN 204 ELSE 404)
       ELSE /\ UNCHANGED incomes
            /\ res' = Response("DELETE /api/incomes/:id", 500)
    /\ UNCHANGED <<nextIncomeId, expenses, nextExpenseId>>
    /\ UNCHANGED notBudget

\* POST /api/expenses
PostExpenses(body, ok) ==
    /\ IF insertExpenseSchema(body) /\ ok
       THEN /\ expenses' = Inserted(expenses, nextExpenseId, createBudgetRow(body))
            /\ nextExpenseId' = nextExpenseId + 1
            /\ res' = Response("POST /api/expenses", 201)
       ELSE /\ UNCHANGED <<expenses, nextExpenseId>>
            /\ res' = Response("POST /api/expenses", 400)
    /\ UNCHANGED <<incomes, nextIncomeId>>
    /\ UNCHANGED notBudget

\* DELETE /api/expenses/:id
DeleteExpense(id, ok) ==
    /\ IF ok
       THEN /\ expenses' = Deleted(expenses, id)
            /\ res' = Response("DELETE /api/expenses/:id",
                               IF id \in DOMAIN expenses THEN 204 ELSE 404)
       ELSE /\ UNCHANGED expenses
            /\ res' = Response("DELETE /api/expenses/:id", 500)
    /\ UNCHANGED <<nextExpenseId, incomes, nextIncomeId>>
    /\ UNCHANGED notBudget

----------------------------------------------------------------------------
(* server/services/priceService.ts: the price lookups.  What the network    *)
(* gives a lookup: the fetch throws (no connection, a body that is not      *)
(* JSON), or a response arrives with its ok flag and its body.              *)

\* what the functions here never touch
notCall == <<assets, transactions, nextAssetId, nextTxId, req, refresh, res, budgetVars, cache>>

\* a JavaScript number | null: null, NaN, or a number counted in 0.001
Null == [kind |-> "null", value |-> 0]
NaN == [kind |-> "NaN", value |-> 0]
Number(n) == [kind |-> "number", value |-> n]

\* parseFloat of a field of the body: NaN for a missing field
parseFloat(field) == IF IsDefined(field) THEN Number(Get(field)) ELSE NaN

\* fetchBinancePrice: the result for a response
fetchBinancePrice(response) ==
    IF response.throws THEN Null
    ELSE IF ~response.ok THEN Null
    ELSE parseFloat(response.price)

\* fetchYahooPrice: the result for a response; a price of 0 counts as no price
fetchYahooPrice(response) ==
    IF response.throws THEN Null
    ELSE IF ~response.ok THEN Null
    ELSE IF response.chartError THEN Null
    ELSE IF ~IsDefined(response.price) \/ Get(response.price) = 0 THEN Null
    ELSE Number(Get(response.price))

\* fetchSingleAssetPrice: the lookup by asset type
fetchSingleAssetPrice(type, response) ==
    IF type = "kripto" THEN fetchBinancePrice(response)
    ELSE IF type \in {"hisse", "etf"} THEN fetchYahooPrice(response)
    ELSE Null

\* no function called yet
NoCall == [fn |-> "none", input |-> <<>>, output |-> <<>>]

Called(fn, input, output) ==
    /\ call' = [fn |-> fn, input |-> input, output |-> output]
    /\ UNCHANGED notCall

FetchBinancePrice(response) ==
    Called("fetchBinancePrice", [type |-> "kripto", response |-> response],
           fetchBinancePrice(response))

FetchYahooPrice(response) ==
    Called("fetchYahooPrice", [type |-> "hisse", response |-> response],
           fetchYahooPrice(response))

FetchSingleAssetPrice(type, response) ==
    Called("fetchSingleAssetPrice", [type |-> type, response |-> response],
           fetchSingleAssetPrice(type, response))

\* GET /api/prices/:symbol: a type or market that is absent or empty is answered 400,
\* a lookup that returns null 404, any other result 200 with the result as the price
GetPrice(type, market, response) ==
    LET price == fetchSingleAssetPrice(Get(type), response)
        status == IF ~IsDefined(type) \/ ~IsDefined(market) THEN 400
                  ELSE IF price = Null THEN 404
                  ELSE 200
    IN  /\ res' = Response("GET /api/prices/:symbol", status)
        /\ call' = [fn |-> "GET /api/prices/:symbol",
                    input |-> [type |-> type, market |-> market, response |-> response],
                    output |-> [status |-> status,
                                price |-> IF status = 200 THEN price ELSE Null]]
        /\ UNCHANGED <<assets, transactions, nextAssetId, nextTxId, req, refresh,
                       budgetVars, cache>>

\* fetchCoinGeckoPrice: data[coinId]?.usd || null, the quote being the price field
fetchCoinGeckoPrice(response) ==
    IF response.throws THEN Null
    ELSE IF ~response.ok THEN Null
    ELSE IF ~IsDefined(response.price) \/ Get(response.price) = 0 THEN Null
    ELSE Number(Get(response.price))

\* if (x): a number other than 0 and NaN
truthy(x) == x.kind = "number" /\ x.value # 0

\* a crypto price that never asks the secondary provider
cryptoUsd_PrimaryOnly(primary, secondary) ==
    [price |-> fetchBinancePrice(primary), secondaryAsked |-> FALSE]

\* let btcUsd = await fetchBinancePrice(..); if (!btcUsd) btcUsd = await
\* fetchCoinGeckoPrice(..): the price, and whether the secondary provider was asked
cryptoUsd(primary, secondary) ==
    LET first == fetchBinancePrice(primary)
    IN  IF truthy(first) THEN [price |-> first, secondaryAsked |-> FALSE]
        ELSE [price |-> fetchCoinGeckoPrice(secondary), secondaryAsked |-> TRUE]

\* fetchExchangeRates for the answers of the providers, leg by leg: the rates by
\* currency (quotes counted in 0.001) and the coins the secondary provider was
\* asked for
fetchExchangeRates(legs) ==
    LET usdTry == fetchYahooPrice(legs.usd)
        eurTry == fetchYahooPrice(legs.eur)
        btc == cryptoUsd(legs.btc, legs.bitcoin)
        eth == cryptoUsd(legs.eth, legs.ethereum)
        goldOzUsd == fetchYahooPrice(legs.gold)
        present == {"TRY"}
                     \cup (IF truthy(usdTry) THEN {"USD"} ELSE {})
                     \cup (IF truthy(eurTry) THEN {"EUR"} ELSE {})
                     \cup (IF truthy(btc.price) /\ truthy(usdTry) THEN {"BTC"} ELSE {})
                     \cup (IF truthy(eth.price) /\ truthy(usdTry) THEN {"ETH"} ELSE {})
                     \cup (IF truthy(goldOzUsd) /\ truthy(usdTry) THEN {"XAU"} ELSE {})
    IN  [rates |->
           [c \in present |->
              IF c = "TRY" THEN Ratio(1, 1)
              ELSE IF c = "USD" THEN Ratio(usdTry.value, 1000)
              ELSE IF c = "EUR" THEN Ratio(eurTry.value, 1000)
              ELSE IF c = "BTC" THEN Ratio(btc.price.value * usdTry.value, 1000000)
              ELSE IF c = "ETH" THEN Ratio(eth.price.value * usdTry.value, 1000000)
              ELSE Ratio(goldOzUsd.value * usdTry.value, 311035 * 100)],
         secondaryAsked |-> (IF btc.secondaryAsked THEN {"bitcoin"} ELSE {})
                              \cup (IF eth.secondaryAsked THEN {"ethereum"} ELSE {})]

FetchExchangeRates(legs) == Called("fetchExchangeRates", legs, fetchExchangeRates(legs))

\* two buys applied to an asset, one createTransaction after the other, in the order
\* given and in the other order
BuyInBothOrders(asset, first, second) ==
    Called("createTransaction.buys", [asset |-> asset, first |-> first, second |-> second],
           [forward |-> buyTwice(asset, first, second),
            backward |-> buyTwice(asset, second, first)])

----------------------------------------------------------------------------
(* server/services/priceService.ts: the bulk price refresh.  A market price *)
(* is counted in 0.001, a stored price in 0.01.                             *)

RefreshIdle == [pc |-> "idle", assets |-> <<>>, results |-> <<>>]

RECURSIVE SeqOfIds(_, _)
\* getAssets: the rows (the fields the refresh reads), here in the order of their
\* creation
SeqOfIds(table, from) ==
    IF from >= nextAssetId THEN <<>>
    ELSE IF from \in DOMAIN table
         THEN <<[id |-> from, type |-> table[from].type,
                  currentPrice |-> table[from].currentPrice]>> \o SeqOfIds(table, from + 1)
         ELSE SeqOfIds(table, from + 1)

getAssets == SeqOfIds(assets, 1)

\* POST /api/prices/update, up to the loop: const assets = await storage.getAssets();
\* when that throws the route answers 500
UpdateAllAssetPricesStart(ok) ==
    /\ refresh.pc = "idle"
    /\ IF ok
       THEN /\ refresh' = [pc |-> "running", assets |-> getAssets, results |-> <<>>]
            /\ UNCHANGED res
       ELSE /\ UNCHANGED refresh
            /\ res' = Response("POST /api/prices/update", 500)
    /\ UNCHANGED <<assets, transactions, nextAssetId, nextTxId, req>>
    /\ UNCHANGED elsewhere

\* updateAllAssetPrices, the price looked up for one asset: the provider's answer for
\* kripto, hisse and etf, the old price for gayrimenkul, null for any other type
newPriceOf(asset, fetched) ==
    IF asset.type \in {"kripto", "hisse", "etf"} THEN fetched
    ELSE IF asset.type = "gayrimenkul" THEN Some(10 * asset.currentPrice)
    ELSE Undefined

\* a loop that gives up on the rest of the snapshot when a lookup yields no price
UpdateAllAssetPricesStep_Aborting(fetched, ok) ==
    /\ refresh.pc = "running"
    /\ refresh.assets # <<>>
    /\ LET asset == Head(refresh.assets)
           oldPrice == asset.currentPrice
           newPrice == newPriceOf(asset, fetched)
           positive == IsDefined(newPrice) /\ Get(newPrice) > 0
       IN  /\ IF positive /\ ok
              THEN \E currentPrice \in toFixed2(Get(newPrice), 10) :
                     assets' = updateAsset(asset.id, [NoData EXCEPT !.currentPrice = Some(currentPrice)])
              ELSE UNCHANGED assets
           /\ refresh' = [refresh EXCEPT
                            !.assets = IF IsDefined(newPrice) THEN Tail(refresh.assets) ELSE <<>>,
                            !.results = Append(refresh.results,
                                               [assetId |-> asset.id, oldPrice |-> oldPrice,
                                                newPrice |-> newPrice, success |-> positive,
                                                error |-> positive /\ ~ok])]
    /\ UNCHANGED <<transactions, nextAssetId, nextTxId, req, res>>
    /\ UNCHANGED elsewhere

\* updateAllAssetPrices, one turn of the loop, for the next asset of the snapshot; a
\* throw of updateAsset is caught and recorded in the entry
UpdateAllAssetPricesStep(fetched, ok) ==
    /\ refresh.pc = "running"
    /\ refresh.assets # <<>>
    /\ LET asset == Head(refresh.assets)
           oldPrice == asset.currentPrice
           newPrice == newPriceOf(asset, fetched)
           positive == IsDefined(newPrice) /\ Get(newPrice) > 0
       IN  /\ IF positive /\ ok
              THEN \E currentPrice \in toFixed2(Get(newPrice), 10) :
                     assets' = updateAsset(asset.id, [NoData EXCEPT !.currentPrice = Some(currentPrice)])
              ELSE UNCHANGED assets
           /\ refresh' = [refresh EXCEPT
                            !.assets = Tail(refresh.assets),
                            !.results = Append(refresh.results,
                                               [assetId |-> asset.id, oldPrice |-> oldPrice,
                                                newPrice |-> newPrice, success |-> positive,
                                                error |-> positive /\ ~ok])]
    /\ UNCHANGED <<transactions, nextAssetId, nextTxId, req, res>>
    /\ UNCHANGED elsewhere

\* POST /api/prices/update, after the loop: the report is sent
UpdateAllAssetPricesDone ==
    /\ refresh.pc = "running"
    /\ refresh.assets = <<>>
    /\ refresh' = RefreshIdle
    /\ res' = Response("POST /api/prices/update", 200)
    /\ UNCHANGED <<assets, transactions, nextAssetId, nextTxId, req>>
    /\ UNCHANGED elsewhere

----------------------------------------------------------------------------
(* DatabaseStorage.getMonthlyPerformance.  A calendar date is a record of    *)
(* year, month (0..11, as getMonth gives it) and day.  An instant of the     *)
(* ledger is counted in half days: 2 * day for the morning, 2 * day + 1 from *)
(* noon on (the client dates a transaction at 12:00).                        *)

IsLeap(year) == (year % 4 = 0 /\ year % 100 # 0) \/ year % 400 = 0

DaysIn(year, month) ==
    IF month = 1 THEN (IF IsLeap(year) THEN 29 ELSE 28)
    ELSE IF month \in {3, 5, 8, 10} THEN 30
    ELSE 31

\* Date.prototype.setMonth: the month may lie outside 0..11 and carries into the
\* year; a day the month does not have carries into the next month
setMonth(date, month) ==
    LET total == date.year * 12 + month
        y == total \div 12
        m == total % 12
    IN  IF date.day <= DaysIn(y, m)
        THEN [year |-> y, month |-> m, day |-> date.day]
        ELSE [year |-> (total + 1) \div 12, month |-> (total + 1) % 12,
              day |-> date.day - DaysIn(y, m)]

\* Date.prototype.setDate(1)
setDate1(date) == [date EXCEPT !.day = 1]

\* getMonthlyPerformance, the loop for i: targetDate
targetDate(currentDate, i) == setDate1(setMonth(currentDate, currentDate.month - i))

\* getMonthlyPerformance, the target dates of the loop for i = 11 down to 0
targetDates(currentDate) == [k \in 1..12 |-> targetDate(currentDate, 12 - k)]

\* GET /api/portfolio/performance, the months of the entries for a call made on
\* currentDate
GetMonthlyPerformanceMonths(currentDate) ==
    Called("getMonthlyPerformance.months", currentDate, targetDates(currentDate))

\* transactions.filter(t => new Date(t.date) <= targetDate), in the order of the list
relevantTransactions(order, target) ==
    SelectSeq(order, LAMBDA t : transactions[t].date <= target)

\* assetValuesAtDate.forEach: an entry counts when its asset is stored and its
\* quantity positive, at the asset's present price
valueOfEntry(entry) ==
    IF entry.assetId \in DOMAIN assets /\ entry.quantity > 0
    THEN entry.quantity * assets[entry.assetId].currentPrice
    ELSE 0

RECURSIVE SumOver(_, _)
\* totalValue: the sum of the values of the entries of the assets in ids, f being
\* the entry of each
SumOver(ids, f) ==
    IF ids = {} THEN 0
    ELSE LET a == CHOOSE x \in ids : TRUE
         IN  valueOfEntry(f[a]) + SumOver(ids \ {a}, f)

\* getMonthlyPerformance, the value of the entry of one month, for the instant
\* target of its targetDate and the list order that getTransactions returned
monthlyValue(order, target) ==
    LET relevant == relevantTransactions(order, target)
        ids == {transactions[t].assetId : t \in DOMAIN transactions}
    IN  SumOver(ids, [a \in ids |-> replay(relevant, 1, NoEntry(a))])

\* GET /api/portfolio/performance, one entry
GetMonthlyPerformanceEntry(target, order) ==
    /\ order \in getTransactions
    /\ Called("getMonthlyPerformance.value", [target |-> target],
              [value |-> monthlyValue(order, target)])

----------------------------------------------------------------------------
(* server/services/priceService.ts: the reports.  A sum of money is counted *)
(* in 0.01; a quotient of two JavaScript numbers is kept as the fraction    *)
(* num/den, den > 0.                                                        *)

RECURSIVE SumOf(_)
\* forEach / reduce with +=: the sum of the values of f
SumOf(f) ==
    IF DOMAIN f = {} THEN 0
    ELSE LET i == CHOOSE x \in DOMAIN f : TRUE
         IN  f[i] + SumOf([j \in DOMAIN f \ {i} |-> f[j]])

\* new Date(i.date) >= startDate, startDate the time value of the Date the route
\* built (NaN for an Invalid Date: every comparison with it is false)
notBefore_Exclusive(date, startDate) == startDate.kind = "number" /\ date > startDate.value
notBefore(date, startDate) == startDate.kind = "number" /\ date >= startDate.value

\* new Date(i.date) <= endDate
notAfter(date, endDate) == endDate.kind = "number" /\ date <= endDate.value

\* getBudgetSummary, the filters: the ids of the rows of a table that are kept.
\* if (startDate) and if (endDate): a Date, valid or not, is truthy
matchingRows(table, startDate, endDate) ==
    {i \in DOMAIN table :
       /\ IsDefined(startDate) => notBefore(table[i].date, Get(startDate))
       /\ IsDefined(endDate) => notAfter(table[i].date, Get(endDate))}

\* percentage: total > 0 ? (amount / total) * 100 : 0
categoryPercentage(amount, total) ==
    IF total > 0 THEN Ratio(amount * 100, total) ELSE Ratio(0, 1)

\* a breakdown with an entry for every category of the table, kept rows or not
byCategory_ZeroFilled(table, ids, total) ==
    [c \in {table[i].category : i \in DOMAIN table} |->
       LET amount == SumOf([i \in {j \in ids : table[j].category = c} |-> table[i].amount])
       IN  [amount |-> amount, percentage |-> categoryPercentage(amount, total)]]

\* incomeByCategory / expenseByCategory: one entry per category of a kept row
byCategory(table, ids, total) ==
    [c \in {table[i].category : i \in ids} |->
       LET amount == SumOf([i \in {j \in ids : table[j].category = c} |-> table[i].amount])
       IN  [amount |-> amount, percentage |-> categoryPercentage(amount, total)]]

\* getBudgetSummary(startDate, endDate)
getBudgetSummary(startDate, endDate) ==
    LET allIncomes == matchingRows(incomes, startDate, endDate)
        allExpenses == matchingRows(expenses, startDate, endDate)
        totalIncome == SumOf([i \in allIncomes |-> incomes[i].amount])
        totalExpense == SumOf([i \in allExpenses |-> expenses[i].amount])
    IN  [totalIncome |-> totalIncome,
         totalExpense |-> totalExpense,
         balance |-> totalIncome - totalExpense,
         incomeByCategory |-> byCategory(incomes, allIncomes, totalIncome),
         expenseByCategory |-> byCategory(expenses, allExpenses, totalExpense)]

\* GET /api/budget/summary: a query parameter that is absent or empty gives no bound,
\* any other is handed to new Date
GetBudgetSummary(startDate, endDate) ==
    Called("getBudgetSummary", [startDate |-> startDate, endDate |-> endDate],
           getBudgetSummary(startDate, endDate))

\* getPortfolioSummary
getPortfolioSummary ==
    LET investmentAssets == SumOf([a \in DOMAIN assets |->
                                     assets[a].quantity * assets[a].currentPrice])
        cashBalance == getBudgetSummary(Undefined, Undefined).balance
        totalAssets == investmentAssets + Max(0, cashBalance)
        totalDebt == IF cashBalance < 0 THEN Abs(cashBalance) ELSE 0
        totalCost == SumOf([a \in DOMAIN assets |->
                              assets[a].quantity * assets[a].averagePrice])
    IN  [totalAssets |-> totalAssets,
         totalDebt |-> totalDebt,
         netWorth |-> totalAssets - totalDebt,
         monthlyChange |-> IF totalCost > 0
                           THEN Ratio((investmentAssets - totalCost) * 100, totalCost)
                           ELSE Ratio(0, 1),
         monthlyChangeAmount |-> investmentAssets - totalCost]

GetPortfolioSummary == Called("getPortfolioSummary", <<>>, getPortfolioSummary)

\* a share of the total computed without looking at the total first
allocationPercentage_Unguarded(value, total) == Ratio(value * 100, total)

\* percentage: total > 0 ? (data.value / total) * 100 : 0
allocationPercentage(value, total) ==
    IF total > 0 THEN Ratio(value * 100, total) ELSE Ratio(0, 1)

\* getAssetAllocation: allocationMap, one entry per type met in the assets
getAssetAllocation ==
    LET valueOf(a) == assets[a].quantity * assets[a].currentPrice
        total == SumOf([a \in DOMAIN assets |-> valueOf(a)])
    IN  [type \in {assets[a].type : a \in DOMAIN assets} |->
           LET value == SumOf([a \in {b \in DOMAIN assets : assets[b].type = type} |->
                                 valueOf(a)])
           IN  [value |-> value, percentage |-> allocationPercentage(value, total)]]

GetAssetAllocation == Called("getAssetAllocation", <<>>, getAssetAllocation)

\* getAssetDetails: the figures added to each asset
getAssetDetails ==
    [a \in DOMAIN assets |->
       LET quantity == assets[a].quantity
           currentPrice == assets[a].currentPrice
           averagePrice == assets[a].averagePrice
           totalValue == quantity * currentPrice
           totalCost == quantity * averagePrice
       IN  [totalValue |-> totalValue,
            totalCost |-> totalCost,
            change |-> IF totalCost > 0
                       THEN Ratio((currentPrice - averagePrice) * 100, averagePrice)
                       ELSE Ratio(0, 1),
            changeAmount |-> currentPrice - averagePrice,
            profit |-> totalValue - totalCost]]

GetAssetDetails == Called("getAssetDetails", <<>>, getAssetDetails)

----------------------------------------------------------------------------
(* client: the queries the pages keep in the query cache, by query key *)

QueryKeys ==
    {"/api/assets", "/api/transactions", "/api/portfolio/summary",
     "/api/portfolio/allocation", "/api/portfolio/performance",
     "/api/portfolio/details", "/api/budget/summary", "/api/incomes", "/api/expenses"}

\* the tables the server reads to answer the query of a key
Reads(k) ==
    IF k = "/api/assets" THEN <<assets>>
    ELSE IF k = "/api/transactions" THEN <<transactions>>
    ELSE IF k = "/api/portfolio/summary" THEN <<assets, incomes, expenses>>
    ELSE IF k = "/api/portfolio/allocation" THEN <<assets>>
    ELSE IF k = "/api/portfolio/performance" THEN <<transactions, assets>>
    ELSE IF k = "/api/portfolio/details" THEN <<assets>>
    ELSE IF k = "/api/budget/summary" THEN <<incomes, expenses>>
    ELSE IF k = "/api/incomes" THEN <<incomes>>
    ELSE <<expenses>>

\* the mutations of the pages with their routes
Mutations ==
    {"createAsset", "deleteAsset", "createTransaction", "updatePrices",
     "createIncome", "deleteIncome", "createExpense", "deleteExpense"}

RouteOf(mutation) ==
    IF mutation = "createAsset" THEN "POST /api/assets"
    ELSE IF mutation = "deleteAsset" THEN "DELETE /api/assets/:id"
    ELSE IF mutation = "createTransaction" THEN "POST /api/transactions"
    ELSE IF mutation = "updatePrices" THEN "POST /api/prices/update"
    ELSE IF mutation = "createIncome" THEN "POST /api/incomes"
    ELSE IF mutation = "deleteIncome" THEN "DELETE /api/incomes/:id"
    ELSE IF mutation = "createExpense" THEN "POST /api/expenses"
    ELSE "DELETE /api/expenses/:id"

\* onSuccess: the keys the mutation passes to invalidateQueries
Invalidates(mutation) ==
    IF mutation \in {"createAsset", "deleteAsset", "updatePrices"}
    THEN {"/api/assets", "/api/portfolio/summary", "/api/portfolio/allocation",
          "/api/portfolio/performance", "/api/portfolio/details"}
    ELSE IF mutation = "createTransaction"
    THEN {"/api/transactions", "/api/assets", "/api/portfolio/summary",
          "/api/portfolio/allocation", "/api/portfolio/performance"}
    ELSE IF mutation \in {"createIncome", "deleteIncome"}
    THEN {"/api/incomes", "/api/budget/summary"}
    ELSE {"/api/expenses", "/api/budget/summary"}

\* what the client never touches
notClient == <<assets, transactions, nextAssetId, nextTxId, req, refresh, budgetVars, call>>

\* useQuery: a key with no cached result is fetched, and the result is kept
UseQuery(k) ==
    /\ ~IsDefined(cache.entries[k])
    /\ cache' = [cache EXCEPT !.entries[k] = Some(Reads(k))]
    /\ UNCHANGED res
    /\ UNCHANGED notClient

\* mutate: apiRequest sends the request of the mutation; no response to it yet
Mutate(mutation) ==
    /\ cache.pending = "none"
    /\ cache' = [cache EXCEPT !.pending = mutation]
    /\ res' = Response("none", 0)
    /\ UNCHANGED notClient

\* the request of the mutation in flight waits for the server
Awaited(mutation) == cache.pending = mutation /\ res = Response("none", 0)

\* apiRequest resolves for a 2xx answer (onSuccess: the keys are invalidated and are
\* fetched anew when next used) and throws for any other (onError: a toast)
Settle ==
    /\ cache.pending # "none"
    /\ res.route = RouteOf(cache.pending)
    /\ cache' = [pending |-> "none",
                 entries |-> IF res.status \in {200, 201, 204}
                             THEN [k \in QueryKeys |->
                                     IF k \in Invalidates(cache.pending) THEN Undefined
                                     ELSE cache.entries[k]]
                             ELSE cache.entries]
    /\ UNCHANGED res
    /\ UNCHANGED notClient

----------------------------------------------------------------------------
(* The requests a client sends *)

Maybe(S) == {Undefined} \cup {Some(v) : v \in S}

\* the payloads of POST /api/assets: with and without quantity, a negative quantity,
\* and one without its required averagePrice
AssetBodies ==
    [type : {Some("hisse")},
     quantity : Maybe({-1}),
     averagePrice : Maybe({100}),
     currentPrice : {Some(100)}]

\* the payloads of PATCH /api/assets/:id
PatchBodies ==
    {[NoData EXCEPT !.quantity = Some(1), !.averagePrice = Some(101)],
     [NoData EXCEPT !.currentPrice = Some(101)]}

TransactionBodies(ids, types, quantities, prices, dates) ==
    [assetId : {Some(a) : a \in ids},
     type : {Some(t) : t \in types},
     quantity : quantities,
     price : {Some(p) : p \in prices},
     date : {Some(d) : d \in dates}]

\* the client before it has asked for anything: no mutation in flight, nothing cached
EmptyCache == [pending |-> "none", entries |-> [k \in QueryKeys |-> Undefined]]

Init ==
    /\ assets = <<>>
    /\ transactions = <<>>
    /\ nextAssetId = 1
    /\ nextTxId = 1
    /\ req = [s \in RaceSlots |-> Idle]
    /\ refresh = RefreshIdle
    /\ res = Response("none", 0)
    /\ incomes = <<>>
    /\ expenses = <<>>
    /\ nextIncomeId = 1
    /\ nextExpenseId = 1
    /\ cache = EmptyCache
    /\ call = NoCall

\* provider answers: none, zero, a positive price
Fetched == {Undefined, Some(0), Some(1010)}

\* the asset ids a client can name in a transaction: those of the assets created so
\* far, and 0, an id no asset ever had
KnownAssetIds == 0..(nextAssetId - 1)

\* the full API; every other request may come between the awaits of a
\* createTransaction call and between the turns of a refresh
Next ==
    \/ \E body \in AssetBodies, ok \in BOOLEAN : nextAssetId <= MaxAssets /\ PostAssets(body, ok)
    \/ \E id \in 1..MaxAssets, body \in PatchBodies, ok \in BOOLEAN : PatchAsset(id, body, ok)
    \/ \E id \in 1..MaxAssets, ok \in BOOLEAN : DeleteAsset(id, ok)
    \/ \E id \in 1..MaxTx, ok \in BOOLEAN : DeleteTransaction(id, ok)
    \/ \E body \in TransactionBodies(KnownAssetIds, {Buy, Sell}, Maybe({1}), {100}, {1}), ok \in BOOLEAN :
         \E s \in Slots : nextTxId <= MaxTx /\ PostTransactions(s, body, ok)
    \/ \E s \in Slots, ok \in BOOLEAN : CreateTransactionGetAsset(s, ok)
    \/ \E s \in Slots, ok \in BOOLEAN : CreateTransactionUpdateAsset(s, ok)
    \/ \E ok \in BOOLEAN : UpdateAllAssetPricesStart(ok)
    \/ \E fetched \in Fetched, ok \in BOOLEAN : UpdateAllAssetPricesStep(fetched, ok)
    \/ UpdateAllAssetPricesDone

Spec == Init /\ [][Next]_vars

----------------------------------------------------------------------------
(* The ledger on its own: assets created fresh (quantity 0, averagePrice 0), *)
(* transactions created against them, every statement succeeding, nothing   *)
(* patched or deleted.                                                      *)

FreshAssetBody ==
    [type |-> Some("hisse"), quantity |-> Undefined,
     averagePrice |-> Some(0), currentPrice |-> Some(100)]

LedgerQuantities == {1, 2}
LedgerPrices == {100, 101}
LedgerDates == {1, 2}

LedgerBodies(types) ==
    TransactionBodies(1..(nextAssetId - 1), types, {Some(q) : q \in LedgerQuantities},
                      LedgerPrices, LedgerDates)

\* one createTransaction call after the other
NextSeq ==
    \/ nextAssetId <= MaxAssets /\ PostAssets(FreshAssetBody, TRUE)
    \/ \E body \in LedgerBodies({Buy, Sell}) :
         nextTxId <= MaxLedgerTx /\ PostTransactions(1, body, TRUE)
    \/ CreateTransactionGetAsset(1, TRUE)
    \/ CreateTransactionUpdateAsset(1, TRUE)

SpecSeq == Init /\ [][NextSeq]_vars

\* createTransaction calls (buys) that overlap
NextRace ==
    \/ nextAssetId <= MaxAssets /\ PostAssets(FreshAssetBody, TRUE)
    \/ \E s \in RaceSlots, body \in LedgerBodies({Buy}) :
         nextTxId <= MaxLedgerTx /\ PostTransactions(s, body, TRUE)
    \/ \E s \in RaceSlots : CreateTransactionGetAsset(s, TRUE)
    \/ \E s \in RaceSlots : CreateTransactionUpdateAsset(s, TRUE)

SpecRace == Init /\ [][NextRace]_vars

----------------------------------------------------------------------------
(* The ledger over assets that already hold something: assets created with  *)
(* a holding (also a negative one, which the API accepts), buys and sells   *)
(* of positive and negative quantities, one call after the other.           *)

HoldingBodies ==
    [type : {Some("hisse")},
     quantity : {Undefined, Some(2), Some(-1)},
     averagePrice : {Some(0), Some(100)},
     currentPrice : {Some(100)}]

HoldingQuantities == {-1, 1, 2}

NextBuy ==
    \/ \E body \in HoldingBodies : nextAssetId <= MaxAssets /\ PostAssets(body, TRUE)
    \/ \E body \in TransactionBodies(1..(nextAssetId - 1), {Buy, Sell},
                                     {Some(q) : q \in HoldingQuantities},
                                     LedgerPrices, {1}) :
         nextTxId <= MaxTx /\ PostTransactions(1, body, TRUE)
    \/ CreateTransactionGetAsset(1, TRUE)
    \/ CreateTransactionUpdateAsset(1, TRUE)

SpecBuy == Init /\ [][NextBuy]_vars

----------------------------------------------------------------------------
(* The bulk price refresh over several assets, while assets are created and *)
(* deleted.                                                                 *)

\* assets ever created in the runs of the price refresh
MaxRefreshAssets == 2

RefreshBodies ==
    [type : {Some("kripto"), Some("gayrimenkul")},
     quantity : {Undefined},
     averagePrice : {Some(100)},
     currentPrice : {Some(100)}]

\* provider answers: none, zero, a price below half of 0.01, a price of 1.01
RefreshFetched == {Undefined, Some(0), Some(4), Some(1010)}

NextRefresh ==
    \/ \E body \in RefreshBodies : nextAssetId <= MaxRefreshAssets /\ PostAssets(body, TRUE)
    \/ \E id \in 1..MaxRefreshAssets : DeleteAsset(id, TRUE)
    \/ \E ok \in BOOLEAN : UpdateAllAssetPricesStart(ok)
    \/ \E fetched \in RefreshFetched, ok \in BOOLEAN : UpdateAllAssetPricesStep(fetched, ok)
    \/ UpdateAllAssetPricesDone

SpecRefresh == Init /\ [][NextRefresh]_vars

----------------------------------------------------------------------------
(* The routes by id over the four tables: create, read, update and delete,  *)
(* with ids that were never handed out and ids of deleted rows, and with    *)
(* payloads whose type or category is outside its enumeration.              *)

\* incomes ever created, and expenses ever created
MaxBudgetRows == 1

CrudAssetBodies ==
    [type : Maybe({"hisse", "altin"}),
     quantity : {Undefined},
     averagePrice : {Some(100)},
     currentPrice : {Some(100)}]

BudgetBodies(categories) ==
    [category : Maybe(categories), amount : {Some(100)}, date : {Some(1)}]

NextCrud ==
    \/ \E body \in CrudAssetBodies, ok \in BOOLEAN :
         nextAssetId <= MaxAssets /\ PostAssets(body, ok)
    \/ \E id \in 1..(MaxAssets + 1), body \in PatchBodies, ok \in BOOLEAN : PatchAsset(id, body, ok)
    \/ \E id \in 1..(MaxAssets + 1), ok \in BOOLEAN : DeleteAsset(id, ok)
    \/ \E id \in 1..(MaxAssets + 1), ok \in BOOLEAN : GetAsset(id, ok)
    \/ \E body \in TransactionBodies(KnownAssetIds, {Buy, "takas"}, {Some(1)}, {100}, {1}),
          ok \in BOOLEAN :
         nextTxId <= MaxBudgetRows /\ PostTransactions(1, body, ok)
    \/ \E ok \in BOOLEAN : CreateTransactionGetAsset(1, ok)
    \/ \E ok \in BOOLEAN : CreateTransactionUpdateAsset(1, ok)
    \/ \E id \in 1..(MaxBudgetRows + 1), ok \in BOOLEAN : DeleteTransaction(id, ok)
    \/ \E id \in 1..(MaxBudgetRows + 1), ok \in BOOLEAN : GetTransaction(id, ok)
    \/ \E body \in BudgetBodies({"maas", "kumar"}), ok \in BOOLEAN :
         nextIncomeId <= MaxBudgetRows /\ PostIncomes(body, ok)
    \/ \E id \in 1..(MaxBudgetRows + 1), ok \in BOOLEAN : DeleteIncome(id, ok)
    \/ \E body \in BudgetBodies({"market", "kumar"}), ok \in BOOLEAN :
         nextExpenseId <= MaxBudgetRows /\ PostExpenses(body, ok)
    \/ \E id \in 1..(MaxBudgetRows + 1), ok \in BOOLEAN : DeleteExpense(id, ok)

SpecCrud == Init /\ [][NextCrud]_vars

----------------------------------------------------------------------------
(* The price lookups, each over every answer of its provider. *)

\* the highest quote a provider gives, in 0.001
MaxQuote == 12

\* the answers of a provider: the fetch throws, the status is not a success, the chart
\* carries an error (Yahoo), the price field is missing, the price is 0..MaxQuote
Responses ==
    [throws : BOOLEAN, ok : BOOLEAN, chartError : BOOLEAN, price : Maybe(0..MaxQuote)]

NextFetch ==
    \/ \E response \in Responses : FetchBinancePrice(response)
    \/ \E response \in Responses : FetchYahooPrice(response)
    \/ \E type \in {"kripto", "hisse", "etf", "gayrimenkul"}, response \in Responses :
         FetchSingleAssetPrice(type, response)

SpecFetch == Init /\ [][NextFetch]_vars

----------------------------------------------------------------------------
(* The months of the performance chart, for a call made on any day of two   *)
(* years, one of them a leap year.                                          *)

CallYears == {2023, 2024}

CallDates ==
    {date \in [year : CallYears, month : 0..11, day : 1..31] :
       date.day <= DaysIn(date.year, date.month)}

NextMonths == \E currentDate \in CallDates : GetMonthlyPerformanceMonths(currentDate)

SpecMonths == Init /\ [][NextMonths]_vars

----------------------------------------------------------------------------
(* The entries of the performance chart over a ledger: transactions dated   *)
(* in the morning or from noon on of two days, created one after the other  *)
(* against a fresh asset that may be deleted.                               *)

\* the instants of day 0 and day 1, in half days
PerfInstants == 0..3

NextPerf ==
    \/ nextAssetId <= MaxAssets /\ PostAssets(FreshAssetBody, TRUE)
    \/ \E id \in 1..MaxAssets : DeleteAsset(id, TRUE)
    \/ \E body \in TransactionBodies(1..(nextAssetId - 1), {Buy, Sell},
                                     {Some(q) : q \in LedgerQuantities}, {100}, PerfInstants) :
         nextTxId <= MaxTx /\ PostTransactions(1, body, TRUE)
    \/ CreateTransactionGetAsset(1, TRUE)
    \/ CreateTransactionUpdateAsset(1, TRUE)
    \/ \E target \in PerfInstants, order \in getTransactions :
         GetMonthlyPerformanceEntry(target, order)

SpecPerf == Init /\ [][NextPerf]_vars

----------------------------------------------------------------------------
(* The client over the server: the pages fetch their queries and run their  *)
(* mutations, one at a time; every statement of the store succeeds.         *)

\* the transactions the client adds
MaxClientTx == 1

NextClient ==
    \/ \E k \in QueryKeys : UseQuery(k)
    \/ \E mutation \in Mutations : Mutate(mutation)
    \/ Settle
    \/ Awaited("createAsset") /\ nextAssetId <= MaxAssets /\ PostAssets(FreshAssetBody, TRUE)
    \/ \E id \in 1..MaxAssets : Awaited("deleteAsset") /\ DeleteAsset(id, TRUE)
    \/ \E body \in TransactionBodies(1..(nextAssetId - 1), {Buy}, {Some(1)}, {100}, {1}) :
         Awaited("createTransaction") /\ nextTxId <= MaxClientTx /\ PostTransactions(1, body, TRUE)
    \/ CreateTransactionGetAsset(1, TRUE)
    \/ CreateTransactionUpdateAsset(1, TRUE)
    \/ Awaited("updatePrices") /\ UpdateAllAssetPricesStart(TRUE)
    \/ UpdateAllAssetPricesStep(Some(1010), TRUE)
    \/ UpdateAllAssetPricesDone
    \/ \E body \in BudgetBodies({"maas"}) :
         Awaited("createIncome") /\ nextIncomeId <= MaxBudgetRows /\ PostIncomes(body, TRUE)
    \/ \E id \in 1..MaxBudgetRows : Awaited("deleteIncome") /\ DeleteIncome(id, TRUE)
    \/ \E body \in BudgetBodies({"market"}) :
         Awaited("createExpense") /\ nextExpenseId <= MaxBudgetRows /\ PostExpenses(body, TRUE)
    \/ \E id \in 1..MaxBudgetRows : Awaited("deleteExpense") /\ DeleteExpense(id, TRUE)

SpecClient == Init /\ [][NextClient]_vars

----------------------------------------------------------------------------
(* The portfolio reports over stored states: up to two assets of two types, *)
(* holding nothing, a positive or a negative quantity, with an income and   *)
(* an expense in the budget.                                                *)

\* assets ever created in the runs of the reports
MaxReportAssets == 2

ReportAssetBodies ==
    [type : {Some("hisse"), Some("kripto")},
     quantity : Maybe({-2, 2}),
     averagePrice : {Some(100)},
     currentPrice : {Some(100), Some(150)}]

AmountBodies(categories, amounts, dates) ==
    [category : {Some(c) : c \in categories},
     amount : {Some(a) : a \in amounts},
     date : {Some(d) : d \in dates}]

NextPortfolio ==
    \/ \E body \in ReportAssetBodies :
         nextAssetId <= MaxReportAssets /\ PostAssets(body, TRUE)
    \/ \E id \in 1..MaxReportAssets : DeleteAsset(id, TRUE)
    \/ \E body \in AmountBodies({"maas"}, {100, 300}, {1}) :
         nextIncomeId <= MaxBudgetRows /\ PostIncomes(body, TRUE)
    \/ \E body \in AmountBodies({"market"}, {200}, {1}) :
         nextExpenseId <= MaxBudgetRows /\ PostExpenses(body, TRUE)
    \/ GetPortfolioSummary
    \/ GetAssetAllocation
    \/ GetAssetDetails

SpecPortfolio == Init /\ [][NextPortfolio]_vars

----------------------------------------------------------------------------
(* The budget summary over stored incomes and expenses of two categories    *)
(* each, dated on three days, asked for with every pair of bounds: absent,  *)
(* the middle day, or a string that is no date.                             *)

\* incomes ever created, and expenses ever created, in the runs of the summary
MaxSummaryRows == 2

\* what new Date makes of the startDate / endDate of the query
QueryDates == Maybe({Number(2), NaN})

NextBudget ==
    \/ \E body \in AmountBodies({"maas", "kira"}, {100, -100}, {1, 2}) :
         nextIncomeId <= MaxSummaryRows /\ PostIncomes(body, TRUE)
    \/ \E body \in AmountBodies({"market", "kira"}, {300}, {2, 3}) :
         nextExpenseId <= MaxSummaryRows /\ PostExpenses(body, TRUE)
    \/ \E startDate \in QueryDates, endDate \in QueryDates :
         GetBudgetSummary(startDate, endDate)

SpecBudget == Init /\ [][NextBudget]_vars

----------------------------------------------------------------------------
(* GET /api/prices/:symbol over every query and every answer of the         *)
(* provider.                                                                *)

NextPrice ==
    \E type \in Maybe({"kripto", "hisse", "gayrimenkul"}), market \in Maybe({"BIST"}),
       response \in Responses :
      GetPrice(type, market, response)

SpecPrice == Init /\ [][NextPrice]_vars

----------------------------------------------------------------------------
(* fetchExchangeRates over the answers of the providers to its seven        *)
(* requests: each throws, answers an error status, a chart error (Yahoo), a *)
(* body without the quote, a quote of 0 or a positive quote.                *)

\* the answers of Yahoo to one request
YahooAnswers ==
    {r \in Responses :
       /\ r.price \in Maybe({0, 5})
       /\ r.throws => (~r.ok /\ ~r.chartError /\ r.price = Undefined)
       /\ ~r.ok => (~r.chartError /\ r.price = Undefined)
       /\ r.chartError => r.price = Undefined}

\* the answers of Binance or CoinGecko to one request
CryptoAnswers == {r \in YahooAnswers : ~r.chartError}

\* one call in a run
NextRates ==
    /\ call = NoCall
    /\ \E usd \in YahooAnswers, eur \in YahooAnswers, gold \in YahooAnswers,
          btc \in CryptoAnswers, bitcoin \in CryptoAnswers,
          eth \in CryptoAnswers, ethereum \in CryptoAnswers :
         FetchExchangeRates([usd |-> usd, eur |-> eur, gold |-> gold, btc |-> btc,
                             bitcoin |-> bitcoin, eth |-> eth, ethereum |-> ethereum])

SpecRates == Init /\ [][NextRates]_vars

----------------------------------------------------------------------------
(* A bulk price refresh interleaved with createTransaction calls, one at a  *)
(* time, on the same asset; every statement succeeds.                       *)

\* provider answers: 1.01 and 2.00
InterleavedFetched == {Some(1010), Some(2000)}

NextInterleaved ==
    \/ nextAssetId <= MaxAssets /\ PostAssets(FreshAssetBody, TRUE)
    \/ \E body \in LedgerBodies({Buy, Sell}) :
         nextTxId <= MaxTx /\ PostTransactions(1, body, TRUE)
    \/ CreateTransactionGetAsset(1, TRUE)
    \/ CreateTransactionUpdateAsset(1, TRUE)
    \/ UpdateAllAssetPricesStart(TRUE)
    \/ \E fetched \in InterleavedFetched : UpdateAllAssetPricesStep(fetched, TRUE)
    \/ UpdateAllAssetPricesDone

SpecInterleaved == Init /\ [][NextInterleaved]_vars

----------------------------------------------------------------------------
(* Two buys against an asset that holds nothing, one or two units, applied  *)
(* in both orders.                                                          *)

OrderAssets ==
    [type : {"hisse"}, quantity : 0..2, averagePrice : {0, 100, 101}, currentPrice : {100}]

OrderBuys == [quantity : LedgerQuantities, price : LedgerPrices]

NextOrder ==
    \E asset \in OrderAssets, first \in OrderBuys, second \in OrderBuys :
      BuyInBothOrders(asset, first, second)

SpecOrder == Init /\ [][NextOrder]_vars

----------------------------------------------------------------------------
(* Properties *)

AllIdle == \A s \in RaceSlots : req[s].pc = "idle"

\* the stored transactions of an asset
TransactionsOf(a) == {t \in DOMAIN transactions : transactions[t].assetId = a}

RECURSIVE SumQuantity(_)
SumQuantity(ts) ==
    IF ts = {} THEN 0
    ELSE LET t == CHOOSE x \in ts : TRUE
         IN  transactions[t].quantity + SumQuantity(ts \ {t})

RECURSIVE SumCost(_)
SumCost(ts) ==
    IF ts = {} THEN 0
    ELSE LET t == CHOOSE x \in ts : TRUE
         IN  transactions[t].quantity * transactions[t].price + SumCost(ts \ {t})

OnlyBuys(a) ==
    /\ TransactionsOf(a) # {}
    /\ \A t \in TransactionsOf(a) : transactions[t].type = Buy /\ transactions[t].quantity > 0

\* C1 (as claimed): once a sequence of buys against a fresh asset has been applied,
\* the stored quantity is the sum of the bought quantities and the stored
\* averagePrice is the quantity-weighted mean of the buy prices, read at the
\* column's two decimals: it is within half of 0.01 of the exact mean.
C1_BuysGiveWeightedMean ==
    AllIdle =>
      \A a \in DOMAIN assets :
        OnlyBuys(a) =>
          LET q == SumQuantity(TransactionsOf(a))
              c == SumCost(TransactionsOf(a))
          IN  /\ assets[a].quantity = q
              /\ 2 * Abs(assets[a].averagePrice * q - c) <= q

\* C2 (as claimed): no stored asset ever has a negative quantity.
C2_QuantityNonNegative == \A a \in DOMAIN assets : assets[a].quantity >= 0

\* the step in which createTransaction's updateAsset of slot s has been answered
UpdateAnswered(s) == req[s].pc = "read" /\ req'[s].pc = "idle"

\* C3: with one call after the other, the update of a sell of q_t writes
\* max(0, q_0 - q_t) over the stored quantity q_0, which is never negative, and
\* leaves the stored averagePrice as it was.
C3_SellClampsAtZero ==
    [][\A s \in RaceSlots :
         (UpdateAnswered(s) /\ Get(req[s].body).type = Sell) =>
           LET tx == Get(req[s].body)
               a == tx.assetId
           IN  /\ a \in DOMAIN assets /\ a \in DOMAIN assets'
               /\ assets'[a].quantity = Max(0, assets[a].quantity - tx.quantity)
               /\ assets'[a].quantity >= 0
               /\ assets'[a].averagePrice = assets[a].averagePrice]_vars

\* C3, its case: a buy of 1 at 1.00 and then a sell of 2 have been applied to
\* asset 1; the quantity is 0 and the averagePrice still 1.00.
C3_Witness ==
    /\ AllIdle
    /\ DOMAIN transactions = {1, 2}
    /\ transactions[1] = [assetId |-> 1, type |-> Buy, quantity |-> 1, price |-> 100, date |-> 1]
    /\ transactions[2].assetId = 1 /\ transactions[2].type = Sell /\ transactions[2].quantity = 2
    /\ 1 \in DOMAIN assets
    /\ assets[1].quantity = 0
    /\ assets[1].averagePrice = 100

\* C4 (as claimed): once the transactions created against a fresh asset have been
\* applied, replaying the list getTransactions returns gives the stored quantity
\* and, within half of 0.01, the stored averagePrice.
C4_ReplayReproducesStored ==
    AllIdle =>
      \A a \in DOMAIN assets : \A order \in getTransactions :
        LET r == replay(order, 1, NoEntry(a))
        IN  /\ r.quantity = assets[a].quantity
            /\ 2 * Abs(assets[a].averagePrice * r.den - r.num) <= r.den

\* C5 (as claimed): once every createTransaction call has returned, a fresh asset
\* holds the sum of all the quantities bought, whether or not the calls overlapped.
C5_NoLostUpdate ==
    AllIdle => \A a \in DOMAIN assets : assets[a].quantity = SumQuantity(TransactionsOf(a))

\* C6 (as claimed): a POST /api/transactions that is answered 400 has inserted no
\* transaction row.
C6_NoPartialWriteOn400 ==
    [][\A s \in RaceSlots :
         (req[s].pc # "idle" /\ req'[s].pc = "idle"
            /\ res' = Response("POST /api/transactions", 400))
           => ~IsDefined(req[s].transaction)]_vars

\* C7: when createTransaction finds no asset under the transaction's assetId and no
\* statement fails, the route answers 201, the inserted transaction row stays and no
\* asset is touched.
C7_MissingAssetIsNoOp ==
    [][\A s \in RaceSlots :
         (req[s].pc = "inserted" /\ req'[s].pc = "idle"
            /\ Get(req[s].body).assetId \notin DOMAIN assets
            /\ res'.status # 400)
           => /\ res' = Response("POST /api/transactions", 201)
              /\ assets' = assets
              /\ transactions' = transactions]_vars

\* C7, its case: the only transaction ever created names asset 0, which never
\* existed; it is stored and the call has been answered 201.
C7_Witness ==
    /\ AllIdle
    /\ nextTxId = 2
    /\ DOMAIN transactions = {1}
    /\ transactions[1].assetId = 0
    /\ res = Response("POST /api/transactions", 201)

\* C8 (as claimed): a transaction row is inserted only under the id of an asset that
\* is stored at that moment.
C8_TransactionReferencesAsset ==
    [][\A t \in DOMAIN transactions' \ DOMAIN transactions :
         transactions'[t].assetId \in DOMAIN assets]_vars

\* a step changes the quantity or the averagePrice of an asset that stays stored
LedgerFieldsChange ==
    \E a \in DOMAIN assets \cap DOMAIN assets' :
      \/ assets'[a].quantity # assets[a].quantity
      \/ assets'[a].averagePrice # assets[a].averagePrice

\* C9 (as claimed): only createTransaction's update changes the quantity or the
\* averagePrice of a stored asset.
C9_OnlyTransactionsChangeLedgerFields ==
    [][LedgerFieldsChange => \E s \in RaceSlots : UpdateAnswered(s)]_vars

\* C9 (amended): only createTransaction's update and PATCH /api/assets/:id change
\* the quantity or the averagePrice of a stored asset; the price refresh, the
\* deletes and every other request leave them as they are.
C9_OnlyTransactionsAndPatchChangeLedgerFields ==
    [][LedgerFieldsChange =>
         \/ \E s \in RaceSlots : CreateTransactionUpdateAsset(s, TRUE)
         \/ \E id \in 1..MaxAssets, body \in PatchBodies : PatchAsset(id, body, TRUE)]_vars

\* C9, its case: no transaction was ever created; a PATCH has set quantity 1 and
\* averagePrice 1.01 on asset 1, and the refresh that wrote the price 1.01 and has
\* just been answered left both as the PATCH wrote them.
C9_Witness ==
    /\ nextTxId = 1
    /\ 1 \in DOMAIN assets
    /\ assets[1].quantity = 1
    /\ assets[1].averagePrice = 101
    /\ assets[1].currentPrice = 101
    /\ res = Response("POST /api/prices/update", 200)

\* C10: a step that removes a transaction row removes that row alone and leaves
\* every asset as it is; a step that removes an asset row removes that row alone and
\* leaves every transaction stored.
C10_DeletesNeitherCascadeNorReverse ==
    [][/\ (\E t \in DOMAIN transactions : t \notin DOMAIN transactions')
            => /\ \E t \in DOMAIN transactions : transactions' = Deleted(transactions, t)
               /\ assets' = assets
       /\ (\E a \in DOMAIN assets : a \notin DOMAIN assets')
            => /\ \E a \in DOMAIN assets : assets' = Deleted(assets, a)
               /\ transactions' = transactions]_vars

\* C10, its case: two transactions were bought against asset 1; the first has been
\* deleted, then the asset, and the second transaction is still stored.
C10_Witness ==
    /\ nextTxId = 3
    /\ DOMAIN transactions = {2}
    /\ transactions[2].assetId = 1
    /\ nextAssetId = 2
    /\ assets = <<>>
    /\ res = Response("DELETE /api/assets/:id", 204)


\* C11: with one call after the other, the update of a buy of q_t at p_t over an
\* asset holding q_0 at the average a_0 writes the quantity q_0 + q_t, and writes
\* the averagePrice (q_0*a_0 + q_t*p_t)/(q_0 + q_t) at the two decimals of the
\* column (within half of 0.01) when q_0 + q_t > 0 and 0 otherwise.
C11_BuyFormula ==
    [][\A s \in RaceSlots :
         (UpdateAnswered(s) /\ Get(req[s].body).type = Buy) =>
           LET tx == Get(req[s].body)
               a == tx.assetId
               q == assets[a].quantity + tx.quantity
               cost == assets[a].quantity * assets[a].averagePrice + tx.quantity * tx.price
           IN  /\ a \in DOMAIN assets /\ a \in DOMAIN assets'
               /\ assets'[a].quantity = q
               /\ IF q > 0
                  THEN 2 * Abs(assets'[a].averagePrice * q - cost) <= q
                  ELSE assets'[a].averagePrice = 0]_vars

\* C11, its case: an asset created holding 2 at 1.00 was sold 1 and then bought
\* 2 at 1.01, and holds 3 at 1.01 (3.02/3 at two decimals).
C11_Witness ==
    /\ AllIdle
    /\ DOMAIN transactions = {1, 2}
    /\ 1 \in DOMAIN assets
    /\ transactions[1] = [assetId |-> 1, type |-> Sell, quantity |-> 1, price |-> 100, date |-> 1]
    /\ transactions[2] = [assetId |-> 1, type |-> Buy, quantity |-> 2, price |-> 101, date |-> 1]
    /\ assets[1].quantity = 3
    /\ assets[1].averagePrice = 101


\* C13 (as claimed): once its payload has passed validation, a create or update
\* request is never answered 400: a POST /api/transactions whose row has been
\* inserted, and a PATCH /api/assets/:id (whose payloads here are all valid), answer
\* 200, 201, 404 or 500 whatever the store does.
C13_PersistenceFailureIsNot400 ==
    [][/\ \A s \in RaceSlots :
            (req[s].pc # "idle" /\ req'[s].pc = "idle") => res'.status # 400
       /\ (res'.route = "PATCH /api/assets/:id" /\ \A body \in PatchBodies : insertAssetSchemaPartial(body))
            => res'.status # 400]_vars


\* a turn of the refresh loop: one more entry in the report
RefreshTurn ==
    /\ refresh.pc = "running"
    /\ refresh'.pc = "running"
    /\ Len(refresh'.results) = Len(refresh.results) + 1

\* the entry a turn of the loop adds to the report
NewEntry == refresh'.results[Len(refresh'.results)]

\* the report so far, entry by entry, covers the snapshot from its start, and the
\* loop goes on to the rest of the snapshot whatever the entry says
ReportFollowsSnapshot ==
    /\ RefreshTurn =>
         /\ refresh'.assets = Tail(refresh.assets)
         /\ NewEntry.assetId = Head(refresh.assets).id
         /\ NewEntry.oldPrice = Head(refresh.assets).currentPrice
         /\ ~IsDefined(NewEntry.newPrice) => (~NewEntry.success /\ assets' = assets)
    /\ (refresh.pc = "running" /\ refresh'.pc = "idle") =>
         (refresh.assets = <<>> /\ res' = Response("POST /api/prices/update", 200))

C17_RefreshWritesOnlyPositivePrices ==
    [][RefreshTurn =>
         \A a \in DOMAIN assets \cap DOMAIN assets' :
           \/ assets'[a].currentPrice = assets[a].currentPrice
           \/ /\ a = NewEntry.assetId
              /\ assets[a].type # "gayrimenkul"
              /\ IsDefined(NewEntry.newPrice)
              /\ assets'[a].currentPrice \in toFixed2(Get(NewEntry.newPrice), 10)
              /\ assets'[a].currentPrice > 0]_vars


\* the four tables
tables == <<assets, transactions, incomes, expenses>>

\* C12: a read, update or delete by an id that no stored row has, when the store
\* answers, is answered 404 and changes none of the four tables; and no step that is
\* answered 404 changes a table.
C12_NotFoundHasNoSideEffect ==
    [][/\ \A id \in 1..(MaxAssets + 1) :
            (id \notin DOMAIN assets) =>
              /\ (\E body \in PatchBodies : PatchAsset(id, body, TRUE))
                   => (res' = Response("PATCH /api/assets/:id", 404) /\ UNCHANGED tables)
              /\ DeleteAsset(id, TRUE)
                   => (res' = Response("DELETE /api/assets/:id", 404) /\ UNCHANGED tables)
              /\ GetAsset(id, TRUE)
                   => (res' = Response("GET /api/assets/:id", 404) /\ UNCHANGED tables)
       /\ \A id \in 1..(MaxBudgetRows + 1) :
            /\ (id \notin DOMAIN transactions) =>
                 /\ DeleteTransaction(id, TRUE)
                      => (res' = Response("DELETE /api/transactions/:id", 404) /\ UNCHANGED tables)
                 /\ GetTransaction(id, TRUE)
                      => (res' = Response("GET /api/transactions/:id", 404) /\ UNCHANGED tables)
            /\ (id \notin DOMAIN incomes /\ DeleteIncome(id, TRUE))
                 => (res' = Response("DELETE /api/incomes/:id", 404) /\ UNCHANGED tables)
            /\ (id \notin DOMAIN expenses /\ DeleteExpense(id, TRUE))
                 => (res' = Response("DELETE /api/expenses/:id", 404) /\ UNCHANGED tables)
       /\ (res'.status = 404 /\ res' # res) => UNCHANGED tables]_vars

\* C12, its case: with asset 1 stored and patched, a PATCH of asset 2, which was
\* never created, has been answered 404; asset 1 is as it was and no row was added.
C12_Witness ==
    /\ res = Response("PATCH /api/assets/:id", 404)
    /\ DOMAIN assets = {1}
    /\ assets[1].quantity = 1 /\ assets[1].averagePrice = 101
    /\ DOMAIN incomes = {1}
    /\ nextAssetId = 2

\* C14 (as claimed): every row a creation endpoint stores has its type or category
\* inside the enumeration of its table.
C14_CreatedRowsAreInTheirEnumerations ==
    [][/\ \A a \in DOMAIN assets' \ DOMAIN assets : assets'[a].type \in assetTypeEnum
       /\ \A t \in DOMAIN transactions' \ DOMAIN transactions :
            transactions'[t].type \in transactionTypeEnum
       /\ \A i \in DOMAIN incomes' \ DOMAIN incomes : incomes'[i].category \in incomeCategories
       /\ \A e \in DOMAIN expenses' \ DOMAIN expenses :
            expenses'[e].category \in expenseCategories]_vars


\* the network call failed, the status is not a success, or the body has no price
LookupFailed(response) == response.throws \/ ~response.ok \/ ~IsDefined(response.price)

\* C15 (as claimed): a price lookup returns null whenever the network call fails,
\* the status is not a success or the body lacks the price field, and every result
\* that is not null is a number, the price of the response.
C15_LookupIsNullOrThePrice ==
    call.fn \in {"fetchBinancePrice", "fetchYahooPrice", "fetchSingleAssetPrice"} =>
      /\ LookupFailed(call.input.response) => call.output = Null
      /\ call.output # Null =>
           /\ IsDefined(call.input.response.price)
           /\ call.output = Number(Get(call.input.response.price))


\* C19 (as claimed): for a call made on any day, the twelve entries are those of the
\* twelve consecutive calendar months that end with the month of the call, oldest
\* first.
C19_TwelveTrailingMonths ==
    call.fn = "getMonthlyPerformance.months" =>
      \A k \in 1..12 :
        call.output[k].year * 12 + call.output[k].month
          = call.input.year * 12 + call.input.month - (12 - k)

\* the day of an instant
DayOf(instant) == instant \div 2

\* the stored transactions in the order of their creation
RECURSIVE Created(_)
Created(from) ==
    IF from >= nextTxId THEN <<>>
    ELSE IF from \in DOMAIN transactions THEN <<from>> \o Created(from + 1)
    ELSE Created(from + 1)

\* the value the claim gives an entry: the transactions dated on the day of target
\* or before, replayed in the order they were applied to the assets
claimedValue(target) ==
    LET counted == SelectSeq(Created(1), LAMBDA t : DayOf(transactions[t].date) <= DayOf(target))
        ids == {transactions[t].assetId : t \in DOMAIN transactions}
    IN  SumOver(ids, [a \in ids |-> replay(counted, 1, NoEntry(a))])

\* the transactions were created in the order of their dates
CreatedInDateOrder ==
    \A t, u \in DOMAIN transactions : t < u => transactions[t].date < transactions[u].date

\* C20 (as claimed): over transactions created in the order of their dates, the
\* entry of a month counts the transactions dated on the day of its target date or
\* before (one dated on that day is included, whatever its time), replays them with
\* the rule of transaction application and values the positive quantities of the
\* assets still stored at their present price.
C20_EntryCountsUpToTheFirst ==
    [][(call' # call /\ call'.fn = "getMonthlyPerformance.value"
          /\ CreatedInDateOrder /\ AllIdle) =>
         call'.output.value = claimedValue(call'.input.target)]_vars


\* C18 (as claimed): when no mutation is in flight, every result the query cache
\* holds is what the server would answer now: a mutation that succeeded has
\* invalidated every cached query that reads a table it changed.
C18_NoCachedQueryIsStale ==
    cache.pending = "none" =>
      \A k \in QueryKeys :
        IsDefined(cache.entries[k]) => Get(cache.entries[k]) = Reads(k)


\* the fractions a/b and c/d are the same number
SameRatio(x, y) == x.num * y.den = y.num * x.den

\* the sums the summary is stated over
investmentValue == SumOf([a \in DOMAIN assets |-> assets[a].quantity * assets[a].currentPrice])
totalCostBasis == SumOf([a \in DOMAIN assets |-> assets[a].quantity * assets[a].averagePrice])
cashBalance ==
    SumOf([i \in DOMAIN incomes |-> incomes[i].amount])
      - SumOf([i \in DOMAIN expenses |-> expenses[i].amount])

\* C21 (as claimed): for every stored state getPortfolioSummary answers
\* totalAssets = investmentValue + max(0, cashBalance), totalDebt = max(0, -cashBalance),
\* netWorth = totalAssets - totalDebt, and monthlyChange =
\* (investmentValue - totalCostBasis) / totalCostBasis x 100, or 0 when
\* totalCostBasis = 0.
C21_SummaryFollowsItsFormulas ==
    [][(call' # call /\ call'.fn = "getPortfolioSummary") =>
         LET out == call'.output
         IN  /\ out.totalAssets = investmentValue + Max(0, cashBalance)
             /\ out.totalDebt = Max(0, -cashBalance)
             /\ out.netWorth = out.totalAssets - out.totalDebt
             /\ SameRatio(out.monthlyChange,
                          IF totalCostBasis = 0 THEN Ratio(0, 1)
                          ELSE Ratio((investmentValue - totalCostBasis) * 100,
                                     totalCostBasis))]_vars


\* a fraction that is the number 0
IsZero(x) == x.num = 0 /\ x.den # 0

RECURSIVE SumRatios(_)
\* the sum of the fractions of f
SumRatios(f) ==
    IF DOMAIN f = {} THEN Ratio(0, 1)
    ELSE LET i == CHOOSE x \in DOMAIN f : TRUE
             rest == SumRatios([j \in DOMAIN f \ {i} |-> f[j]])
         IN  Ratio(f[i].num * rest.den + rest.num * f[i].den, f[i].den * rest.den)

\* C22: getAssetAllocation answers one entry per asset type that has an asset; the
\* percentages of the entries sum to 100 when the total value is > 0, and each is 0
\* when the total value is 0.
C22_AllocationSharesSumTo100 ==
    [][(call' # call /\ call'.fn = "getAssetAllocation") =>
         LET out == call'.output
             shares == [type \in DOMAIN out |-> out[type].percentage]
         IN  /\ DOMAIN out = {assets[a].type : a \in DOMAIN assets}
             /\ investmentValue > 0 =>
                  /\ \A type \in DOMAIN out : shares[type].den # 0
                  /\ SameRatio(SumRatios(shares), Ratio(100, 1))
             /\ investmentValue = 0 => \A type \in DOMAIN out : IsZero(shares[type])]_vars

\* C22 witness: two types are held, one at a positive and one at a negative value,
\* and the allocation of these assets, over a positive total, was answered
C22_Witness ==
    /\ call.fn = "getAssetAllocation"
    /\ Cardinality(DOMAIN call.output) = 2
    /\ investmentValue > 0
    /\ \E type \in DOMAIN call.output : call.output[type].value < 0
    /\ call.output = getAssetAllocation


\* a bound of the summary that is absent or a date
IsDateOrAbsent(bound) == IsDefined(bound) => Get(bound).kind = "number"

\* the rows of a table dated within the bounds, both included; an absent bound
\* bounds nothing
Matching(table, startDate, endDate) ==
    {i \in DOMAIN table :
       /\ IsDefined(startDate) => Get(startDate).value <= table[i].date
       /\ IsDefined(endDate) => table[i].date <= Get(endDate).value}

\* a budget summary was answered for bounds that are dates or absent
SummaryAnswered ==
    /\ call' # call
    /\ call'.fn = "getBudgetSummary"
    /\ IsDateOrAbsent(call'.input.startDate)
    /\ IsDateOrAbsent(call'.input.endDate)

\* one side of the summary: only the categories of the matching rows are listed,
\* their percentages sum to 100 when the total of the side is > 0 and are all 0 when
\* it is 0
SideHolds(table, ids, total, listed) ==
    LET shares == [c \in DOMAIN listed |-> listed[c].percentage]
    IN  /\ DOMAIN listed = {table[i].category : i \in ids}
        /\ total > 0 =>
             /\ \A c \in DOMAIN listed : shares[c].den # 0
             /\ SameRatio(SumRatios(shares), Ratio(100, 1))
        /\ total = 0 => \A c \in DOMAIN listed : IsZero(shares[c])

\* C23: getBudgetSummary answers balance = totalIncome - totalExpense over the
\* matching rows, lists only the categories that have a matching entry, and on each
\* side the percentages sum to 100 when the side's total is > 0 and are all 0 when
\* it is 0.
C23_BudgetSummaryBalancesAndShares ==
    [][SummaryAnswered =>
         LET out == call'.output
             ins == Matching(incomes, call'.input.startDate, call'.input.endDate)
             outs == Matching(expenses, call'.input.startDate, call'.input.endDate)
         IN  /\ out.balance = out.totalIncome - out.totalExpense
             /\ out.balance = SumOf([i \in ins |-> incomes[i].amount])
                                - SumOf([i \in outs |-> expenses[i].amount])
             /\ SideHolds(incomes, ins, out.totalIncome, out.incomeByCategory)
             /\ SideHolds(expenses, outs, out.totalExpense, out.expenseByCategory)]_vars

\* C23 witness: a summary was answered that leaves out a stored expense of a category
\* of its own (dated after the end bound) and lists two income categories over a
\* positive total
C23_Witness ==
    /\ call.fn = "getBudgetSummary"
    /\ call.input.endDate = Some(Number(2))
    /\ call.output.totalIncome > 0
    /\ Cardinality(DOMAIN call.output.incomeByCategory) = 2
    /\ Cardinality(DOMAIN call.output.expenseByCategory) = 1
    /\ Cardinality({expenses[i].category : i \in DOMAIN expenses}) = 2
    /\ DOMAIN incomes = 1..2 /\ DOMAIN expenses = 1..2
    /\ call.output = getBudgetSummary(call.input.startDate, call.input.endDate)

\* C24: the date filter of the budget summary includes both bounds: with startDate
\* and/or endDate supplied a row is counted iff startDate <= its date <= endDate,
\* and with no bound every row is counted.
C24_DateFilterIsInclusive ==
    [][SummaryAnswered =>
         LET out == call'.output
             ins == Matching(incomes, call'.input.startDate, call'.input.endDate)
             outs == Matching(expenses, call'.input.startDate, call'.input.endDate)
             amountsOf(table, ids) ==
                 [c \in {table[i].category : i \in ids} |->
                    SumOf([i \in {j \in ids : table[j].category = c} |-> table[i].amount])]
         IN  /\ out.totalIncome = SumOf([i \in ins |-> incomes[i].amount])
             /\ out.totalExpense = SumOf([i \in outs |-> expenses[i].amount])
             /\ [c \in DOMAIN out.incomeByCategory |-> out.incomeByCategory[c].amount]
                  = amountsOf(incomes, ins)
             /\ [c \in DOMAIN out.expenseByCategory |-> out.expenseByCategory[c].amount]
                  = amountsOf(expenses, outs)]_vars

\* C24 witness: a summary from day 2 to day 2 was answered while an income and an
\* expense dated day 2 (on both bounds), an income dated day 1 and an expense dated
\* day 3 are stored
C24_Witness ==
    /\ call.fn = "getBudgetSummary"
    /\ call.input = [startDate |-> Some(Number(2)), endDate |-> Some(Number(2))]
    /\ {incomes[i].date : i \in DOMAIN incomes} = {1, 2}
    /\ {expenses[i].date : i \in DOMAIN expenses} = {2, 3}
    /\ call.output.totalIncome = 100
    /\ call.output.totalExpense = 300
    /\ call.output = getBudgetSummary(call.input.startDate, call.input.endDate)


\* C25 (as claimed): for every stored asset getAssetDetails answers profit =
\* quantity x currentPrice - quantity x averagePrice, changeAmount = currentPrice -
\* averagePrice, and change = (currentPrice - averagePrice) / averagePrice x 100, or
\* 0 when quantity x averagePrice is 0.
C25_DetailsFollowTheirFormulas ==
    [][(call' # call /\ call'.fn = "getAssetDetails") =>
         /\ DOMAIN call'.output = DOMAIN assets
         /\ \A a \in DOMAIN assets :
              LET out == call'.output[a]
                  asset == assets[a]
                  totalCost == asset.quantity * asset.averagePrice
              IN  /\ out.profit = asset.quantity * asset.currentPrice - totalCost
                  /\ out.changeAmount = asset.currentPrice - asset.averagePrice
                  /\ out.change.den # 0
                  /\ SameRatio(out.change,
                               IF totalCost = 0 THEN Ratio(0, 1)
                               ELSE Ratio((asset.currentPrice - asset.averagePrice) * 100,
                                          asset.averagePrice))]_vars


\* C26 (as claimed): GET /api/prices/:symbol answers 400 iff the type or the market
\* is missing; otherwise 404 iff no price is available (the lookup failed, or the
\* type has no lookup); otherwise 200, and a 200 always carries a number.
C26_PriceRouteStatuses ==
    call.fn = "GET /api/prices/:symbol" =>
      LET in == call.input
          missing == ~IsDefined(in.type) \/ ~IsDefined(in.market)
          unavailable == \/ Get(in.type) \notin {"kripto", "hisse", "etf"}
                         \/ LookupFailed(in.response)
                         \/ /\ Get(in.type) \in {"hisse", "etf"}
                            /\ in.response.chartError \/ in.response.price = Some(0)
      IN  /\ call.output.status \in {200, 400, 404}
          /\ call.output.status = 400 <=> missing
          /\ ~missing => (call.output.status = 404 <=> unavailable)
          /\ call.output.status = 200 => call.output.price.kind = "number"


\* a provider's answer that gives no price: the call failed, the status is not a
\* success, the body carries an error or no quote, or the quote is 0
YieldsNothing(response) ==
    LookupFailed(response) \/ response.chartError \/ response.price = Some(0)

\* C27: fetchExchangeRates always returns TRY = 1; USD and EUR are absent iff their
\* own quote failed; BTC and ETH iff the crypto price (both providers) or the USD
\* quote failed; XAU iff the gold quote or the USD quote failed; the secondary
\* provider is asked only when the primary yields nothing.
C27_RateAbsentIffALegFailed ==
    call.fn = "fetchExchangeRates" =>
      LET legs == call.input
          rates == call.output.rates
          usdFailed == YieldsNothing(legs.usd)
      IN  /\ "TRY" \in DOMAIN rates /\ SameRatio(rates["TRY"], Ratio(1, 1))
          /\ DOMAIN rates \subseteq {"TRY", "USD", "EUR", "BTC", "ETH", "XAU"}
          /\ "USD" \notin DOMAIN rates <=> usdFailed
          /\ "EUR" \notin DOMAIN rates <=> YieldsNothing(legs.eur)
          /\ "BTC" \notin DOMAIN rates <=>
               (YieldsNothing(legs.btc) /\ YieldsNothing(legs.bitcoin)) \/ usdFailed
          /\ "ETH" \notin DOMAIN rates <=>
               (YieldsNothing(legs.eth) /\ YieldsNothing(legs.ethereum)) \/ usdFailed
          /\ "XAU" \notin DOMAIN rates <=> YieldsNothing(legs.gold) \/ usdFailed
          /\ "bitcoin" \in call.output.secondaryAsked <=> YieldsNothing(legs.btc)
          /\ "ethereum" \in call.output.secondaryAsked <=> YieldsNothing(legs.eth)

\* C27 witness: Binance answers BTC without a price and CoinGecko gives one, the EUR
\* and the gold quote fail, and the rates returned are TRY, USD, BTC and ETH, ETH
\* from Binance without asking CoinGecko
C27_Witness ==
    /\ call.fn = "fetchExchangeRates"
    /\ call.input.btc.ok /\ ~call.input.btc.throws /\ call.input.btc.price = Undefined
    /\ call.input.eur.throws
    /\ call.input.gold.chartError
    /\ DOMAIN call.output.rates = {"TRY", "USD", "BTC", "ETH"}
    /\ call.output.secondaryAsked = {"bitcoin"}


\* C28 (as claimed): an entry of the refresh report with success:true means that this
\* turn stored the reported newPrice as the asset's currentPrice: the asset is stored
\* after the turn at that price, and the entry records no error.
C28_SuccessMeansStored ==
    [][(RefreshTurn /\ NewEntry.success) =>
         /\ ~NewEntry.error
         /\ NewEntry.assetId \in DOMAIN assets'
         /\ assets'[NewEntry.assetId].currentPrice
              \in toFixed2(Get(NewEntry.newPrice), 10)]_vars


\* createTransaction writes the asset in this step
TransactionWrites == req[1].pc = "read" /\ req'[1].pc = "idle"

\* C29: a bulk price refresh interleaved with createTransaction on the same asset
\* loses neither update: the write of the transaction leaves currentPrice as stored
\* and sets quantity and averagePrice to the transaction applied to the row as
\* stored at the write; a turn of the refresh leaves quantity and averagePrice as
\* stored and sets currentPrice to the fetched price.
C29_RefreshAndTransactionLoseNothing ==
    [][/\ TransactionWrites =>
            LET tx == Get(req[1].body)
                a == tx.assetId
                q == assets[a].quantity
            IN  /\ assets'[a].currentPrice = assets[a].currentPrice
                /\ tx.type = Buy =>
                     /\ assets'[a].quantity = q + tx.quantity
                     /\ assets'[a].averagePrice
                          \in toFixed2(q * assets[a].averagePrice + tx.quantity * tx.price,
                                       q + tx.quantity)
                /\ tx.type = Sell =>
                     /\ assets'[a].quantity = Max(0, q - tx.quantity)
                     /\ assets'[a].averagePrice = assets[a].averagePrice
       /\ RefreshTurn =>
            LET a == NewEntry.assetId
            IN  /\ assets'[a].quantity = assets[a].quantity
                /\ assets'[a].averagePrice = assets[a].averagePrice
                /\ assets'[a].currentPrice \in toFixed2(Get(NewEntry.newPrice), 10)]_vars

\* C29 witness: a createTransaction has read the asset at the price 1.00 and has not
\* written yet, while the refresh that runs has since stored the price 2.00 with the
\* asset holding what an earlier transaction bought
C29_Witness ==
    /\ req[1].pc = "read"
    /\ Get(req[1].asset).currentPrice = 100
    /\ refresh.pc = "running"
    /\ Len(refresh.results) = 1
    /\ refresh.results[1].newPrice = Some(2000)
    /\ assets[1].currentPrice = 200
    /\ assets[1].quantity > 0


\* C30 (as claimed): two buys applied to the same asset one after the other leave
\* the same quantity and the same averagePrice in either order (where no quotient
\* lies half way between two cents, so that each order has one result).
C30_BuysCommute ==
    (/\ call.fn = "createTransaction.buys"
     /\ Cardinality(call.output.forward) = 1
     /\ Cardinality(call.output.backward) = 1) =>
      call.output.forward = call.output.backward

====
